---- MODULE Spec2Model ----
(***************************************************************************)
(* Model of visualpanic-rs (src/src/lib.rs): the VisualPanic settings      *)
(* value, its registration as the process-wide panic hook, and the hook    *)
(* closure that formats a panic into a native message dialog.              *)
(*                                                                         *)
(* Strings are TLA+ strings; Option<T> is a sequence of length 0 (None)    *)
(* or 1 (Some).                                                            *)
(***************************************************************************)
EXTENDS Integers, Sequences, FiniteSets

VARIABLES hook, registered, replaced, thr, ref

vars == <<hook, registered, replaced, thr, ref>>

(* ------------------------------ bounds --------------------------------- *)

\* Number of threads of the process that may panic.
NumThreads == 2

Threads == 1..NumThreads

(* ------------------------------ Option<T> ------------------------------ *)

None == <<>>

Some(x) == <<x>>

is_some(o) == Len(o) = 1

unwrap(o) == o[1]

(* ------------------------ VisualPanicLevel, VisualPanic ---------------- *)

VisualPanicLevel == {"Error", "Warning", "Info"}

VisualPanic_default == [custom_icon |-> None, custom_title |-> None, custom_level |-> None]

\* Variant of new() that stores the icon argument as the title and the title
\* argument as the icon.
VisualPanic_new_swapped(custom_icon, custom_title, custom_level) ==
    [custom_icon |-> custom_title, custom_title |-> custom_icon,
     custom_level |-> custom_level]

\* new(): starts from all-None and copies over each argument that is Some.
VisualPanic_new(custom_icon, custom_title, custom_level) ==
    LET r0 == [custom_icon |-> None, custom_title |-> None, custom_level |-> None]
        r1 == IF is_some(custom_icon)
              THEN [r0 EXCEPT !.custom_icon = Some(unwrap(custom_icon))] ELSE r0
        r2 == IF is_some(custom_title)
              THEN [r1 EXCEPT !.custom_title = Some(unwrap(custom_title))] ELSE r1
        r3 == IF is_some(custom_level)
              THEN [r2 EXCEPT !.custom_level = Some(unwrap(custom_level))] ELSE r2
    IN  r3

(* ------------------------- hook closure, pure parts -------------------- *)

\* env!("CARGO_PKG_NAME"): the build-time package name.
CARGO_PKG_NAME == "visualpanic-rs"

\* u32 Display: decimal digits, most significant first.
Digit(d) == SubSeq("0123456789", d + 1, d + 1)

RECURSIVE u32_to_string(_)
u32_to_string(n) ==
    IF n < 10 THEN Digit(n) ELSE u32_to_string(n \div 10) \o Digit(n % 10)

\* panic_info.payload().downcast_ref::<&str>()
downcast_ref_str(payload) ==
    IF payload.type = "&str" THEN Some(payload.value) ELSE None

location_str(location) ==
    "File: " \o location.file \o " at Line: " \o u32_to_string(location.line)
        \o ", Column: " \o u32_to_string(location.column)

\* Variant of the format!() call with the payload and message arguments in
\* each other's place.
display_message_swapped(loc_str, payload_as_str, message) ==
    "An error occured.\n(" \o loc_str \o ")\n\nPayload: " \o message
        \o "\n\nMessage: " \o payload_as_str \o "\n\nThe program will terminate.\n"

display_message(loc_str, payload_as_str, message) ==
    "An error occured.\n(" \o loc_str \o ")\n\nPayload: " \o payload_as_str
        \o "\n\nMessage: " \o message \o "\n\nThe program will terminate.\n"

resolve_title(clone) ==
    IF is_some(clone.custom_title) THEN unwrap(clone.custom_title) ELSE CARGO_PKG_NAME

resolve_level(clone) ==
    IF ~is_some(clone.custom_level) THEN "MessageType::Error"
    ELSE CASE unwrap(clone.custom_level) = "Error" -> "MessageType::Error"
           [] unwrap(clone.custom_level) = "Warning" -> "MessageType::Warning"
           [] unwrap(clone.custom_level) = "Info" -> "MessageType::Info"

resolve_icon(clone) ==
    IF is_some(clone.custom_icon) THEN Some(unwrap(clone.custom_icon)) ELSE None

\* Variant of the builder chain that shows the icon path in the title bar.
message_dialog_with_icon(title, level, icon, text) ==
    [call |-> "show_alert",
     title |-> IF is_some(icon) THEN title \o " " \o unwrap(icon) ELSE title,
     type |-> level, text |-> text]

\* MessageDialog::new().set_title(..).set_type(..).set_text(..).show_alert():
\* the request handed to the native dialog capability.  The icon local is
\* computed by the closure but no builder call receives it.
message_dialog(title, level, icon, text) ==
    [call |-> "show_alert", title |-> title, type |-> level, text |-> text]

\* Variant of the closure that numbers its dialogs in a counter kept between
\* invocations.
hook_closure_counting(clone, panic_info) ==
    LET payload_as_str == downcast_ref_str(panic_info.payload)
        shown == Cardinality({t \in Threads : thr[t].pc = "dead"})
    IN  IF \/ ~is_some(payload_as_str)
           \/ ~is_some(panic_info.location)
           \/ ~is_some(panic_info.message)
        THEN [panicked |-> TRUE, expect |-> "Failed.", icon |-> None, alerts |-> <<>>]
        ELSE [panicked |-> FALSE, expect |-> "", icon |-> resolve_icon(clone),
              alerts |-> << message_dialog(
                               resolve_title(clone), resolve_level(clone),
                               resolve_icon(clone),
                               display_message(location_str(unwrap(panic_info.location)),
                                               unwrap(payload_as_str),
                                               unwrap(panic_info.message))
                                   \o "#" \o u32_to_string(shown)) >>]

\* Variant of the closure that repeats the resolved title in the body text.
hook_closure_titled_body(clone, panic_info) ==
    LET payload_as_str == downcast_ref_str(panic_info.payload)
    IN  IF \/ ~is_some(payload_as_str)
           \/ ~is_some(panic_info.location)
           \/ ~is_some(panic_info.message)
        THEN [panicked |-> TRUE, expect |-> "Failed.", icon |-> None, alerts |-> <<>>]
        ELSE [panicked |-> FALSE, expect |-> "", icon |-> resolve_icon(clone),
              alerts |-> << message_dialog(
                               resolve_title(clone), resolve_level(clone),
                               resolve_icon(clone),
                               resolve_title(clone) \o "\n"
                                   \o display_message(
                                          location_str(unwrap(panic_info.location)),
                                          unwrap(payload_as_str),
                                          unwrap(panic_info.message))) >>]

\* Variant of the closure that builds the dialog but never shows it.
hook_closure_no_alert(clone, panic_info) ==
    [panicked |-> FALSE, expect |-> "", icon |-> resolve_icon(clone), alerts |-> <<>>]

\* Variant of the closure that falls back to empty strings and to location
\* 0:0 instead of panicking in expect().
hook_closure_lenient(clone, panic_info) ==
    LET payload_as_str == downcast_ref_str(panic_info.payload)
        p == IF is_some(payload_as_str) THEN unwrap(payload_as_str) ELSE ""
        l == IF is_some(panic_info.location) THEN unwrap(panic_info.location)
             ELSE [file |-> "", line |-> 0, column |-> 0]
        m == IF is_some(panic_info.message) THEN unwrap(panic_info.message) ELSE ""
    IN  [panicked |-> FALSE, expect |-> "", icon |-> resolve_icon(clone),
         alerts |-> << message_dialog(resolve_title(clone), resolve_level(clone),
                                      resolve_icon(clone),
                                      display_message(location_str(l), p, m)) >>]

\* The closure body up to the show_alert() call: either a failed expect()
\* (a panic inside the hook) or the dialog request.  icon is the closure's
\* local of that name once it has been resolved.
hook_closure(clone, panic_info) ==
    LET payload_as_str == downcast_ref_str(panic_info.payload)
    IN  IF ~is_some(payload_as_str)
        THEN [panicked |-> TRUE, expect |-> "Failed to extract Panic Payload to &str.",
              icon |-> None, alerts |-> <<>>]
        ELSE IF ~is_some(panic_info.location)
        THEN [panicked |-> TRUE,
              expect |-> "Failed to get location where the panic occured.",
              icon |-> None, alerts |-> <<>>]
        ELSE IF ~is_some(panic_info.message)
        THEN [panicked |-> TRUE, expect |-> "Failed to extract message.",
              icon |-> None, alerts |-> <<>>]
        ELSE [panicked |-> FALSE, expect |-> "", icon |-> resolve_icon(clone),
              alerts |-> << message_dialog(
                               resolve_title(clone), resolve_level(clone),
                               resolve_icon(clone),
                               display_message(location_str(unwrap(panic_info.location)),
                                               unwrap(payload_as_str),
                                               unwrap(panic_info.message))) >>]

(* ------------------------------ inputs --------------------------------- *)

Icons == {None, Some("path/to/custom_icon.png")}

Titles == {None, Some(""), Some("Custom Title")}

Levels == {None} \cup {Some(l) : l \in VisualPanicLevel}

\* Every settings value the two constructors can build from these arguments.
Configs ==
    {VisualPanic_default}
        \cup {VisualPanic_new(i, t, l) : i \in Icons, t \in Titles, l \in Levels}

Payloads ==
    { [type |-> "&str", value |-> "boom"],
      [type |-> "String", value |-> "boom"],
      [type |-> "i32", value |-> "42"] }

Locations == {None, Some([file |-> "app.src", line |-> 10, column |-> 4])}

Messages == {None, Some("boom"), Some("index out of range")}

PanicInfos ==
    {[payload |-> p, location |-> l, message |-> m] :
        p \in Payloads, l \in Locations, m \in Messages}

\* Inputs of SpecFmt: panics the closure can read, with varied strings and
\* numbers, under the default settings and one custom settings value.
FmtConfigs ==
    {VisualPanic_default, VisualPanic_new(None, Some("Custom Title"), Some("Warning"))}

FmtLocations ==
    {Some([file |-> f, line |-> l, column |-> c]) :
        f \in {"app.src", "src/main.rs"}, l \in {7, 10, 205}, c \in {4, 10}}

FmtInfos ==
    {[payload |-> [type |-> "&str", value |-> p], location |-> l, message |-> Some(m)] :
        p \in {"", "boom", "10", "Message: "},
        l \in FmtLocations,
        m \in {"", "boom", "index out of range"}}

\* Inputs of SpecSeq: the settings with each field present or absent, and
\* panics the closure can and cannot read.
SeqConfigs ==
    {VisualPanic_new(i, t, l) :
        i \in Icons, t \in {None, Some("Custom Title")}, l \in {None, Some("Warning")}}

SeqInfos == {i \in PanicInfos : i.payload.type # "String" /\ i.message # None}

(* ------------------------------ state ---------------------------------- *)

\* A thread that has not panicked.
Idle ==
    [pc |-> "running", info |-> None, clone |-> None, icon |-> None,
     alerts |-> <<>>, result |-> None, expect |-> ""]

process_aborted == \E t \in Threads : thr[t].pc = "aborted"

\* Threads inside the hook hold the read side of the hook lock.
in_hook(t) == thr[t].pc \in {"alert", "returned"}

Init ==
    /\ hook = None
    /\ registered = None
    /\ replaced = FALSE
    /\ thr = [t \in Threads |-> Idle]
    /\ ref = None

(* ------------------------------ actions -------------------------------- *)

\* Variant of register_global that keeps a hook that is already installed.
register_global_keep_first(self) ==
    /\ ~process_aborted
    /\ \E t \in Threads : thr[t].pc = "running"
    /\ \A t \in Threads : ~in_hook(t)
    /\ hook' = IF is_some(hook) THEN hook ELSE Some(self)
    /\ registered' = Some(self)
    /\ replaced' = (replaced \/ (is_some(hook) /\ hook # Some(self)))
    /\ UNCHANGED <<thr, ref>>

\* register_global(self): clone self into a closure and install it with
\* std::panic::set_hook, replacing whatever hook was installed.  set_hook
\* takes the write side of the hook lock, so it waits for running hooks.
\* registered records the argument of the latest call, replaced whether some
\* call has dropped a closure holding other settings.
register_global(self) ==
    /\ ~process_aborted
    /\ \E t \in Threads : thr[t].pc = "running"
    /\ \A t \in Threads : ~in_hook(t)
    /\ hook' = Some(self)
    /\ registered' = Some(self)
    /\ replaced' = (replaced \/ (is_some(hook) /\ hook # Some(self)))
    /\ UNCHANGED <<thr, ref>>

\* Thread t panics with panic_info.  The runtime runs the installed hook on
\* the failing thread: the default hook prints and returns; the closure runs
\* to its show_alert() call, or panics in an expect(), which aborts the
\* process.
Panic(t, panic_info) ==
    /\ ~process_aborted
    /\ thr[t].pc = "running"
    /\ IF ~is_some(hook)
       THEN thr' = [thr EXCEPT ![t] = [Idle EXCEPT !.pc = "returned",
                                                   !.info = Some(panic_info)]]
       ELSE LET r == hook_closure(unwrap(hook), panic_info)
            IN  thr' = [thr EXCEPT ![t] =
                           [pc |-> IF r.panicked THEN "aborted" ELSE "alert",
                            info |-> Some(panic_info), clone |-> hook,
                            icon |-> r.icon, alerts |-> r.alerts,
                            result |-> None, expect |-> r.expect]]
    /\ UNCHANGED <<hook, registered, replaced, ref>>

\* Variant of the closure's last step that uninstalls the hook once the
\* dialog has been dismissed (as std::panic::take_hook would).
AlertReturn_take_hook(t, res) ==
    /\ ~process_aborted
    /\ thr[t].pc = "alert"
    /\ thr' = [thr EXCEPT ![t].pc = IF res = "Ok" THEN "returned" ELSE "aborted",
                          ![t].result = Some(res),
                          ![t].expect = IF res = "Ok" THEN ""
                                        ELSE "Failed to launch VisualPanic Dialog."]
    /\ hook' = None
    /\ UNCHANGED <<registered, replaced, ref>>

\* show_alert() blocks until the dialog is dismissed and returns Ok, or
\* returns Err when the dialog cannot be shown; .expect() turns Err into a
\* panic inside the hook.
AlertReturn(t, res) ==
    /\ ~process_aborted
    /\ thr[t].pc = "alert"
    /\ thr' = [thr EXCEPT ![t].pc = IF res = "Ok" THEN "returned" ELSE "aborted",
                          ![t].result = Some(res),
                          ![t].expect = IF res = "Ok" THEN ""
                                        ELSE "Failed to launch VisualPanic Dialog."]
    /\ UNCHANGED <<hook, registered, replaced, ref>>

\* The hook has returned: the runtime releases the hook lock and the thread
\* unwinds and terminates.
Unwind(t) ==
    /\ ~process_aborted
    /\ thr[t].pc = "returned"
    /\ thr' = [thr EXCEPT ![t] = [Idle EXCEPT !.pc = "dead"]]
    /\ UNCHANGED <<hook, registered, replaced, ref>>

Next ==
    \/ \E c \in Configs : register_global(c)
    \/ \E t \in Threads, i \in PanicInfos : Panic(t, i)
    \/ \E t \in Threads, res \in {"Ok", "Err"} : AlertReturn(t, res)
    \/ \E t \in Threads : Unwind(t)

\* Any number of threads panicking concurrently, any registrations.
Spec == Init /\ [][Next]_vars

\* One thread panicking, with varied panic contents.
NextFmt ==
    \/ \E c \in FmtConfigs : register_global(c)
    \/ \E i \in FmtInfos : Panic(1, i)
    \/ \E res \in {"Ok", "Err"} : AlertReturn(1, res)
    \/ Unwind(1)

SpecFmt == Init /\ [][NextFmt]_vars

\* A finished run of the closure, as an observer of the dialog calls sees it.
call_of(t) ==
    [clone |-> thr[t].clone, info |-> thr[t].info, icon |-> thr[t].icon,
     alerts |-> thr[t].alerts, result |-> thr[t].result, pc |-> thr[t].pc,
     expect |-> thr[t].expect]

\* The observer keeps one finished run of the closure to compare later runs
\* with.
Remember(t) ==
    /\ thr[t].pc \in {"returned", "aborted"}
    /\ is_some(thr[t].clone)
    /\ ref' = Some(call_of(t))
    /\ UNCHANGED <<hook, registered, replaced, thr>>

\* The process has ended and the program is started again: no hook is
\* registered and no thread has panicked.
Restart ==
    /\ \/ process_aborted
       \/ \A t \in Threads : ~in_hook(t)
    /\ hook' = None
    /\ registered' = None
    /\ replaced' = FALSE
    /\ thr' = [t \in Threads |-> Idle]
    /\ UNCHANGED ref

\* Threads panic one after the other, in the order of their numbers.
one_at_a_time(t) ==
    \A u \in Threads :
        /\ u < t => thr[u].pc = "dead"
        /\ u > t => thr[u].pc = "running"

\* Panics one after the other, within one run of the program and across
\* runs, with one earlier run of the closure kept for comparison.
NextSeq ==
    \/ \E c \in SeqConfigs : register_global(c)
    \/ \E t \in Threads, i \in SeqInfos : one_at_a_time(t) /\ Panic(t, i)
    \/ \E t \in Threads, res \in {"Ok", "Err"} : AlertReturn(t, res)
    \/ \E t \in Threads : Unwind(t)
    \/ \E t \in Threads : Remember(t)
    \/ Restart

SpecSeq == Init /\ [][NextSeq]_vars

(* ------------------------ properties under Spec ------------------------ *)

\* The title, dialog type and icon the documentation promises for settings c.
expected_title(c) ==
    IF c.custom_title = None THEN "visualpanic-rs" ELSE c.custom_title[1]

expected_type(c) ==
    IF c.custom_level = None THEN "MessageType::Error"
    ELSE "MessageType::" \o c.custom_level[1]

\* Thread t's panic was given to a registered closure.
Handled(t) == is_some(thr[t].clone)

Failed(t) == thr[t].pc \in {"alert", "returned", "aborted"}

\* C1: once register_global has been called, every panic is handled by the
\* closure of the latest call and by nothing else: the thread runs the latest
\* settings, requests at most one dialog, whose title and type come from the
\* latest settings; and an installed hook is never uninstalled.
C1_LatestConfigHandles ==
    /\ [](\A t \in Threads :
            (Failed(t) /\ is_some(registered)) =>
                /\ thr[t].clone = registered
                /\ Len(thr[t].alerts) <= 1
                /\ Len(thr[t].alerts) = 1 =>
                      /\ thr[t].alerts[1].title = expected_title(registered[1])
                      /\ thr[t].alerts[1].type = expected_type(registered[1]))
    /\ [][is_some(hook) => is_some(hook')]_vars

\* A panic shown by the second of two different registrations.
C1_Witness ==
    \E t \in Threads :
        /\ replaced
        /\ thr[t].pc = "returned"
        /\ thr[t].clone = registered
        /\ Len(thr[t].alerts) = 1

\* C2: for settings built by new(icon, title, level) with any subset of the
\* arguments present, and for default(), the closure resolves each field on
\* its own: the title is the given title (the empty string included) or the
\* package name, the type is the given level or Error, the icon is the given
\* icon or none.
C2_FieldsResolveIndependently ==
    \A t \in Threads :
        Len(thr[t].alerts) = 1 =>
            /\ \A i \in Icons, ti \in Titles, l \in Levels :
                  thr[t].clone = Some(VisualPanic_new(i, ti, l)) =>
                      /\ thr[t].alerts[1].title =
                            (IF ti = None THEN "visualpanic-rs" ELSE ti[1])
                      /\ thr[t].alerts[1].type =
                            (IF l = None THEN "MessageType::Error"
                             ELSE "MessageType::" \o l[1])
                      /\ thr[t].icon = i
            /\ thr[t].clone = Some(VisualPanic_default) =>
                  /\ thr[t].alerts[1].title = "visualpanic-rs"
                  /\ thr[t].alerts[1].type = "MessageType::Error"
                  /\ thr[t].icon = None

\* An empty title with an Info level and no icon, shown as given.
C2_Witness ==
    \E t \in Threads :
        /\ thr[t].clone = Some(VisualPanic_new(None, Some(""), Some("Info")))
        /\ Len(thr[t].alerts) = 1
        /\ thr[t].alerts[1].title = ""
        /\ thr[t].alerts[1].type = "MessageType::Info"
        /\ thr[t].icon = None

\* What the closure does with a panic it can read, unless the dialog fails.
OneAlertThenReturn(t) ==
    /\ thr[t].pc \in {"alert", "returned"}
    /\ Len(thr[t].alerts) = 1
    /\ thr[t].alerts[1].call = "show_alert"
    /\ thr[t].alerts[1].title = expected_title(thr[t].clone[1])
    /\ thr[t].alerts[1].type = expected_type(thr[t].clone[1])
    /\ thr[t].alerts[1].text =
          display_message(location_str(thr[t].info[1].location[1]),
                          thr[t].info[1].payload.value, thr[t].info[1].message[1])

\* C3 as stated: a &str payload and an available location suffice for the
\* closure to request exactly one alert and return, when the dialog works.
C3_Original ==
    \A t \in Threads :
        ( /\ Handled(t)
          /\ thr[t].info[1].payload.type = "&str"
          /\ is_some(thr[t].info[1].location)
          /\ thr[t].result # Some("Err") ) =>
        /\ thr[t].pc \in {"alert", "returned"}
        /\ Len(thr[t].alerts) = 1

\* C3, amended: for every panic with a &str payload, an available location
\* and an available message, and with the dialog working, the closure
\* requests exactly one blocking alert carrying the resolved title, the
\* resolved type and the composed text, before it returns, and does not fail.
C3_OneAlertWhenReadable ==
    \A t \in Threads :
        ( /\ Handled(t)
          /\ thr[t].info[1].payload.type = "&str"
          /\ is_some(thr[t].info[1].location)
          /\ is_some(thr[t].info[1].message)
          /\ thr[t].result # Some("Err") ) =>
        OneAlertThenReturn(t)

\* A readable panic whose dialog was shown and dismissed.
C3_Witness ==
    \E t \in Threads :
        /\ Handled(t)
        /\ thr[t].pc = "returned"
        /\ thr[t].result = Some("Ok")
        /\ OneAlertThenReturn(t)

\* C4: a panic whose payload is not a &str or whose location is missing ends
\* the closure in a panic of its own before any dialog is requested; a dialog
\* that reports failure ends it in a panic too.
C4_MalformedIsFatal ==
    \A t \in Threads :
        Handled(t) =>
            /\ ( \/ thr[t].info[1].payload.type # "&str"
                 \/ thr[t].info[1].location = None ) =>
                  /\ thr[t].pc = "aborted"
                  /\ thr[t].alerts = <<>>
                  /\ thr[t].expect # ""
            /\ thr[t].result = Some("Err") =>
                  /\ thr[t].pc = "aborted"
                  /\ thr[t].expect = "Failed to launch VisualPanic Dialog."

\* A payload that is not a &str met a registered closure.
C4_Witness ==
    \E t \in Threads :
        /\ Handled(t)
        /\ thr[t].info[1].payload.type = "i32"
        /\ thr[t].pc = "aborted"
        /\ thr[t].alerts = <<>>

\* C8: closures running at the same time on different threads resolve the
\* same title, type and icon from the one installed settings value, and no
\* step of a closure changes the installed settings.
C8_SharedConfigReadOnly ==
    /\ [](\A t \in Threads, u \in Threads :
            (thr[t].pc = "alert" /\ thr[u].pc = "alert") =>
                /\ thr[t].clone = hook
                /\ thr[t].alerts[1].title = thr[u].alerts[1].title
                /\ thr[t].alerts[1].type = thr[u].alerts[1].type
                /\ thr[t].icon = thr[u].icon
                /\ thr[t].alerts[1].title = expected_title(hook[1])
                /\ thr[t].alerts[1].type = expected_type(hook[1])
                /\ thr[t].icon = hook[1].custom_icon)
    /\ [][thr' # thr => hook' = hook]_vars

\* Two threads with their dialogs open at once, for different panics.
C8_Witness ==
    \E t \in Threads, u \in Threads :
        /\ t # u
        /\ thr[t].pc = "alert"
        /\ thr[u].pc = "alert"
        /\ thr[t].info # thr[u].info
        /\ hook = Some(VisualPanic_new(Some("path/to/custom_icon.png"),
                                       Some("Custom Title"), Some("Warning")))

(* ----------------------- properties under SpecFmt ---------------------- *)

occurs_at(sub, s, i) == SubSeq(s, i, i + Len(sub) - 1) = sub

\* How often sub occurs in s as a substring.
Count(sub, s) ==
    Cardinality({i \in 1..(Len(s) - Len(sub) + 1) : occurs_at(sub, s, i)})

\* The least position >= from at which sub occurs in s, or 0.
First(sub, s, from) ==
    LET I == {i \in from..(Len(s) - Len(sub) + 1) : occurs_at(sub, s, i)}
    IN  IF I = {} THEN 0 ELSE CHOOSE i \in I : \A j \in I : i <= j

\* s holds a, then b, then c, as substrings that do not overlap.
InOrder(a, b, c, s) ==
    LET i == First(a, s, 1)
        j == IF i = 0 THEN 0 ELSE First(b, s, i + Len(a))
        k == IF j = 0 THEN 0 ELSE First(c, s, j + Len(b))
    IN  k # 0

loc_of(t) == location_str(thr[t].info[1].location[1])

payload_of(t) == thr[t].info[1].payload.value

message_of(t) == thr[t].info[1].message[1]

\* C5 as stated: the text holds the location string, the payload and the
\* message, each exactly once, in that order.
C5_Original ==
    \A t \in Threads :
        Len(thr[t].alerts) = 1 =>
            /\ Count(loc_of(t), thr[t].alerts[1].text) = 1
            /\ Count(payload_of(t), thr[t].alerts[1].text) = 1
            /\ Count(message_of(t), thr[t].alerts[1].text) = 1
            /\ InOrder(loc_of(t), payload_of(t), message_of(t), thr[t].alerts[1].text)

\* C5, amended: the text holds the location string, then the payload, then
\* the message as substrings that do not overlap, and beyond these three
\* insertions only the 72 characters of the fixed template.
C5_EachInsertedOnceInOrder ==
    \A t \in Threads :
        Len(thr[t].alerts) = 1 =>
            /\ InOrder(loc_of(t), payload_of(t), message_of(t), thr[t].alerts[1].text)
            /\ Count(loc_of(t), thr[t].alerts[1].text) >= 1
            /\ Count(payload_of(t), thr[t].alerts[1].text) >= 1
            /\ Count(message_of(t), thr[t].alerts[1].text) >= 1
            /\ Len(thr[t].alerts[1].text) =
                  72 + Len(loc_of(t)) + Len(payload_of(t)) + Len(message_of(t))

\* A payload that differs from the message, both shown.
C5_Witness ==
    \E t \in Threads :
        /\ Len(thr[t].alerts) = 1
        /\ payload_of(t) = "boom"
        /\ message_of(t) = "index out of range"
        /\ loc_of(t) = "File: src/main.rs at Line: 205, Column: 10"
        /\ Count("boom", thr[t].alerts[1].text) = 1

starts_with(s, pre) == Len(pre) <= Len(s) /\ SubSeq(s, 1, Len(pre)) = pre

ends_with(s, suf) ==
    Len(suf) <= Len(s) /\ SubSeq(s, Len(s) - Len(suf) + 1, Len(s)) = suf

\* C9: the text is the preamble "An error occurred.", the location, the
\* payload, the message and the notice that the program will terminate, in
\* this order.
C9_Original ==
    \A t \in Threads :
        Len(thr[t].alerts) = 1 =>
            /\ starts_with(thr[t].alerts[1].text, "An error occurred.")
            /\ InOrder(loc_of(t), payload_of(t), message_of(t), thr[t].alerts[1].text)
            /\ ends_with(thr[t].alerts[1].text, "The program will terminate.\n")

\* The same statement with the preamble as the source spells it.
C9_WithSourcePreamble ==
    \A t \in Threads :
        Len(thr[t].alerts) = 1 =>
            /\ starts_with(thr[t].alerts[1].text, "An error occured.")
            /\ InOrder(loc_of(t), payload_of(t), message_of(t), thr[t].alerts[1].text)
            /\ ends_with(thr[t].alerts[1].text, "The program will terminate.\n")

(* ----------------------- properties under SpecSeq ---------------------- *)

Finished(t) == thr[t].pc \in {"returned", "aborted"} /\ is_some(thr[t].clone)

C7_BodyIndependentOfConfig ==
    \A t \in Threads :
        ( /\ Finished(t)
          /\ is_some(ref)
          /\ thr[t].info = ref[1].info
          /\ Len(thr[t].alerts) = 1
          /\ Len(ref[1].alerts) = 1 ) =>
        /\ thr[t].alerts[1].text = ref[1].alerts[1].text
        /\ thr[t].alerts[1].title = expected_title(thr[t].clone[1])
        /\ thr[t].alerts[1].type = expected_type(thr[t].clone[1])
        /\ ref[1].alerts[1].title = expected_title(ref[1].clone[1])
        /\ ref[1].alerts[1].type = expected_type(ref[1].clone[1])

\* default() and then new(None, Some("Custom Title"), Some(Warning)), for
\* the same panic.
C7_Witness ==
    \E t \in Threads :
        /\ Finished(t)
        /\ is_some(ref)
        /\ ref[1].clone = Some(VisualPanic_default)
        /\ thr[t].clone = Some(VisualPanic_new(None, Some("Custom Title"), Some("Warning")))
        /\ thr[t].info = ref[1].info
        /\ Len(thr[t].alerts) = 1
        /\ thr[t].alerts[1].text = ref[1].alerts[1].text
        /\ thr[t].alerts[1].title = "Custom Title"
        /\ ref[1].alerts[1].title = "visualpanic-rs"
        /\ thr[t].alerts[1].type = "MessageType::Warning"
        /\ ref[1].alerts[1].type = "MessageType::Error"

\* C10: two runs of the closure whose settings differ at most in the icon,
\* for the same panic and the same answer of the dialog, request the same
\* dialog and end the same way.
C10_IconInert ==
    \A t \in Threads :
        ( /\ Finished(t)
          /\ is_some(ref)
          /\ thr[t].clone[1].custom_title = ref[1].clone[1].custom_title
          /\ thr[t].clone[1].custom_level = ref[1].clone[1].custom_level
          /\ thr[t].info = ref[1].info
          /\ thr[t].result = ref[1].result ) =>
        /\ thr[t].alerts = ref[1].alerts
        /\ thr[t].pc = ref[1].pc
        /\ thr[t].expect = ref[1].expect

\* One run with an icon and one without, both shown and dismissed.
C10_Witness ==
    \E t \in Threads :
        /\ Finished(t)
        /\ is_some(ref)
        /\ thr[t].clone[1].custom_icon = Some("path/to/custom_icon.png")
        /\ ref[1].clone[1].custom_icon = None
        /\ thr[t].clone[1].custom_title = ref[1].clone[1].custom_title
        /\ thr[t].clone[1].custom_level = ref[1].clone[1].custom_level
        /\ thr[t].info = ref[1].info
        /\ thr[t].pc = "returned"
        /\ ref[1].pc = "returned"
        /\ Len(thr[t].alerts) = 1
        /\ thr[t].alerts = ref[1].alerts

====
